---- MODULE Spec2Model ----
(***************************************************************************)
(* Model of the voice recorder's recording lifecycle and chunked           *)
(* transcription pipeline: StateManager (src/voice_recorder/               *)
(* state_manager.py) and VoiceRecorderApp (src/main.py).                   *)
(*                                                                         *)
(* Four specifications share the variables:                                *)
(*   SpecSM   - the StateManager object driven by arbitrary method calls   *)
(*              (the unit-level contracts of its methods);                 *)
(*   Spec     - the application in one recording session: the hotkey       *)
(*              thread, the UI thread, the audio callback, the chunked     *)
(*              worker and the processing pass, with failing               *)
(*              transcription calls and the clear button;                  *)
(*   SpecUI   - the application across consecutive sessions triggered by   *)
(*              the UI button, where a worker of an earlier session may    *)
(*              outlive it;                                                *)
(*   FairSpec - one session triggered by the UI button, with failing       *)
(*              transcription calls, where the pass and the worker are     *)
(*              scheduled fairly (for the progress properties).            *)
(* The threads are interleaved between their accesses to shared data: a    *)
(* step is one locked StateManager call or one transcription call,         *)
(* together with the thread-local work and the unshared reads and writes   *)
(* around it.                                                              *)
(*                                                                         *)
(* Audio is counted in abstract samples.  A sample is a pair <<s, k>>:     *)
(* the session it was recorded in and its rank in that session, so that    *)
(* slices can be compared by content.                                      *)
(***************************************************************************)
EXTENDS Integers, Sequences, FiniteSets, TLC

\* ------------------------------------------------------------------ bounds
\* Largest chunk size (in samples) a run of SpecSM is configured with.
MaxChunk == 3
\* Largest block (in samples) one add_audio_chunk call appends.
MaxBlock == 2
\* Number of samples appended in one run of SpecSM.
MaxAppend == 6
\* Number of mark_chunk_processed calls between two resets in SpecSM.
MaxMarks == 3
\* Number of recording sessions (Idle->Recording transitions) in a run of
\* Spec, where both trigger sources act, and in a run of SpecUI, where the
\* UI button alone does.
MaxSessions == 1
MaxSessionsUI == 2
\* Number of samples the buffer holds in a run of Spec.
MaxTotal == 4
\* Number of failing transcription calls in a run of Spec.
MaxFail == 1
\* The configured window of Spec, in samples (config.chunk_duration_seconds
\* and config.chunk_overlap_seconds times config.sample_rate, scaled down).
ChunkSamples == 2
OverlapSamples == 1
\* config.min_recording_duration times config.sample_rate, scaled down.
MinRecordingSamples == 2
\* The longest prefix and suffix of the transcripts of SpecCtx, in characters.
MaxAffix == 2
\* previous_text[-100:]: the length of the continuity context.
ContextChars == 100

\* ------------------------------------------------------------------ state
VARIABLES
    \* StateManager
    state,                   \* self._state
    audio_buffer,            \* self._audio_buffer: a sequence of blocks
    processed_sample_index,  \* self._processed_sample_index (the cursor)
    \* the configured window request (config.chunk_duration_seconds *
    \* sample_rate, config.chunk_overlap_seconds * sample_rate)
    chunk_size_samples,
    overlap_samples,
    \* SpecSM: the last StateManager call and what it returned
    call,
    \* self._lock: "free", or the thread that holds it
    lock,
    \* ghost: samples appended so far (in Spec: in the current session),
    \* marks since the last cursor reset
    appended,
    nmarks,
    \* VoiceRecorderApp
    recording_source,              \* self.recording_source
    accumulated_transcription,     \* self._accumulated_transcription
    stop_chunked_transcription,    \* self._stop_chunked_transcription (Event)
    chunked_transcription_thread,  \* self._chunked_transcription_thread
                                   \* (0: None, otherwise a worker)
    enable_chunked_transcription,  \* config.enable_chunked_transcription
    \* AudioRecorder
    is_recording,                  \* self._is_recording (the stream runs)
    \* the hotkey thread and the UI thread, each inside _toggle_recording
    tpc,                           \* position of each caller
    twon,                          \* the session a caller has started (0: none)
    received,                      \* SpecToggle: the state at a caller's
                                   \* is_idle() test, until its next test
    \* the audio callback thread
    apc,
    \* the chunked workers, one per session that started one
    wpc,                           \* position of each worker
    chunk_audio,                   \* the window a worker holds
    chunk_text,                    \* the text returned for it
    wnew,                          \* the value a worker is about to store
    \* the processing passes, one per session that reached Processing
    ppc,                           \* position of each pass
    used_chunked_transcription,    \* the mode a pass decided on
    paudio,                        \* remaining_audio / audio_data
    ptext,                         \* final_text / text
    pnew,                          \* the value a pass is about to store
    \* ghost
    scenario,                      \* what this run draws its inputs from:
                                   \* the sessions it may start, the texts
                                   \* a transcription call may return
    session,                       \* successful Idle->Recording transitions
    wins,                          \* per session: callers that won its start
    passes,                        \* per session: processing passes started
    spawned,                       \* per session: workers started
    covered,                       \* samples handed to a transcription call
    wfails,                        \* failed transcription calls so far
    wfail_mark,                    \* nmarks at a worker's last failed call
                                   \* (-1: none)
    signalled,                     \* the workers that were alive when the
                                   \* stop flag was set
    aborts,                        \* per pass: abort statuses emitted ...
    errors,                        \* per pass: error statuses emitted
    delivered,                     \* per pass: a text was delivered ...
                                   \* (... since the last session start)
    results                        \* the non-empty texts the chunked
                                   \* transcription calls returned since the
                                   \* transcript was last reset, in the
                                   \* order they returned

smdata == <<state, audio_buffer, processed_sample_index, chunk_size_samples,
            overlap_samples, call, appended, nmarks>>

smvars == <<smdata, lock>>

sharedvars == <<recording_source, accumulated_transcription,
                stop_chunked_transcription, chunked_transcription_thread,
                enable_chunked_transcription, is_recording>>
togglevars == <<tpc, twon, received>>
workervars == <<wpc, chunk_audio, chunk_text, wnew>>
passvars == <<ppc, used_chunked_transcription, paudio, ptext, pnew>>
outvars == <<signalled, aborts, errors, delivered>>

ghostvars == <<scenario, session, wins, passes, spawned, covered,
              wfails, wfail_mark, results, outvars>>

appvars == <<sharedvars, togglevars, apc, workervars, passvars, ghostvars>>

vars == <<smvars, appvars>>

\* ---------------------------------------------------------------- helpers
IDLE == "IDLE"
RECORDING == "RECORDING"
PROCESSING == "PROCESSING"

RecordingState == {IDLE, RECORDING, PROCESSING}

Max(a, b) == IF a >= b THEN a ELSE b
Min(a, b) == IF a <= b THEN a ELSE b

\* Optional[np.ndarray]
None == [none |-> TRUE, data |-> <<>>]
Some(x) == [none |-> FALSE, data |-> x]

\* np.concatenate(self._audio_buffer)
RECURSIVE Concatenate(_)
Concatenate(blocks) ==
    IF blocks = <<>> THEN <<>>
    ELSE Head(blocks) \o Concatenate(Tail(blocks))

\* sum(len(chunk) for chunk in self._audio_buffer)
RECURSIVE TotalSamples(_)
TotalSamples(blocks) ==
    IF blocks = <<>> THEN 0
    ELSE Len(Head(blocks)) + TotalSamples(Tail(blocks))

\* a[lo:hi] of a Python sequence, for lo, hi >= 0: both ends are clamped to
\* the length, and the slice is empty when lo >= hi.
PySlice(a, lo, hi) ==
    LET l == Min(lo, Len(a))
        h == Min(hi, Len(a))
    IN IF l >= h THEN <<>> ELSE SubSeq(a, l + 1, h)

\* ----------------------------------------------------------- StateManager
\* valid_transitions of transition_to
valid_transitions ==
    [s \in RecordingState |->
        CASE s = IDLE -> {RECORDING}
          [] s = RECORDING -> {PROCESSING, IDLE}
          [] s = PROCESSING -> {IDLE}]

\* transition_to: the returned flag and the state it leaves
TransitionAllowed_SelfOk(cur, new) ==
    new \in valid_transitions[cur] \/ new = cur

TransitionAllowed(cur, new) == new \in valid_transitions[cur]
TransitionTarget(cur, new) == IF TransitionAllowed(cur, new) THEN new ELSE cur

\* get_next_chunk, the index arithmetic: <<>> when the method returns None,
\* otherwise <<start_idx, min(end_idx, total_samples)>>
ChunkWindow_OffByOne(total_samples, cursor, chunk, overlap) ==
    LET start_idx == Max(0, cursor - overlap)
        end_idx == start_idx + chunk + overlap
    IN IF cursor >= total_samples THEN <<>>
       ELSE IF total_samples - cursor <= chunk THEN <<>>
       ELSE <<start_idx, Min(end_idx, total_samples)>>

ChunkWindow_NoLookahead(total_samples, cursor, chunk, overlap) ==
    LET start_idx == Max(0, cursor - overlap)
        end_idx == start_idx + chunk
    IN IF cursor >= total_samples THEN <<>>
       ELSE IF total_samples - cursor < chunk THEN <<>>
       ELSE <<start_idx, Min(end_idx, total_samples)>>

ChunkWindow_NoLookback(total_samples, cursor, chunk, overlap) ==
    LET start_idx == cursor
        end_idx == start_idx + chunk + overlap
    IN IF cursor >= total_samples THEN <<>>
       ELSE IF total_samples - cursor < chunk THEN <<>>
       ELSE <<start_idx, Min(end_idx, total_samples)>>

ChunkWindow(total_samples, cursor, chunk, overlap) ==
    LET start_idx == Max(0, cursor - overlap)
        end_idx == start_idx + chunk + overlap
        available_new_samples == total_samples - cursor
    IN IF cursor >= total_samples THEN <<>>
       ELSE IF available_new_samples < chunk THEN <<>>
       ELSE <<start_idx, Min(end_idx, total_samples)>>

\* get_next_chunk
GetNextChunk(buf, cursor, chunk, overlap) ==
    IF buf = <<>> THEN None
    ELSE
      LET w == ChunkWindow(TotalSamples(buf), cursor, chunk, overlap)
      IN IF w = <<>> THEN None
         ELSE Some(PySlice(Concatenate(buf), w[1], w[2]))

\* mark_chunk_processed
MarkChunkProcessed_Assign(cursor, num_samples) == num_samples

MarkChunkProcessed(cursor, num_samples) == cursor + num_samples

\* get_remaining_audio, the start of the slice
RemainingStart_NoLookback(cursor, overlap) == cursor

RemainingStart(cursor, overlap) == Max(0, cursor - overlap)

\* get_remaining_audio
GetRemainingAudio(buf, cursor, overlap) ==
    IF buf = <<>> THEN None
    ELSE
      LET total_samples == TotalSamples(buf)
          start_idx == RemainingStart(cursor, overlap)
          full_audio == Concatenate(buf)
      IN IF cursor >= total_samples THEN None
         ELSE Some(PySlice(full_audio, start_idx, Len(full_audio)))

\* get_audio_data: the returned value (the buffer is cleared when non-empty)
GetAudioData(buf) == IF buf = <<>> THEN None ELSE Some(Concatenate(buf))

\* get_total_samples
GetTotalSamples(buf) == IF buf = <<>> THEN 0 ELSE TotalSamples(buf)

\* get_processed_samples
GetProcessedSamples(cursor) == cursor

\* a block of n fresh samples of session s, the first of rank k
NewBlock(s, k, n) == [i \in 1..n |-> <<s, k + i - 1>>]

\* ------------------------------------------------------------ Transcriber
\* A text is a sequence of characters; str.strip() removes these.
Whitespace == {" ", "\n"}

\* previous_text[-100:]
LastChars_First(text, n) == PySlice(text, 0, n)

LastChars(text, n) == PySlice(text, Max(0, Len(text) - n), Len(text))

\* str.strip()
RECURSIVE LStrip(_)
LStrip(text) ==
    IF text # <<>> /\ Head(text) \in Whitespace THEN LStrip(Tail(text))
    ELSE text

RECURSIVE RStrip(_)
RStrip(text) ==
    IF text # <<>> /\ text[Len(text)] \in Whitespace
    THEN RStrip(SubSeq(text, 1, Len(text) - 1))
    ELSE text

Strip(text) == RStrip(LStrip(text))

\* transcribe_chunk_with_context: transcribe_params["initial_prompt"], None
\* when the key is not set
InitialPrompt(previous_text) ==
    IF previous_text # <<>>
    THEN LET context == Strip(LastChars(previous_text, ContextChars))
         IN IF context # <<>> THEN Some(context) ELSE None
    ELSE None

\* ------------------------------------------------------ VoiceRecorderApp
Callers == {"hotkey", "ui"}
Sessions == 1..MaxSessionsUI

\* recording_source as set by _on_hotkey_pressed / _on_ui_record_pressed
SourceOf(c) == IF c = "hotkey" THEN "hotkey" ELSE "ui_button"

\* what a transcription call returns: a stripped text, possibly empty
Texts == {<<>>, <<"a">>, <<"b">>}
TextsUI == {<<>>, <<"a">>}

Range(f) == {f[i] : i \in DOMAIN f}

\* VoiceRecorderApp.__init__ (and the threads not yet started)
InitRest ==
    /\ recording_source = "hotkey"
    /\ stop_chunked_transcription = FALSE
    /\ chunked_transcription_thread = 0
    /\ is_recording = FALSE
    /\ tpc = [c \in Callers |-> "idle"]
    /\ twon = [c \in Callers |-> 0]
    /\ received = [c \in Callers |-> "none"]
    /\ apc = "idle"
    /\ wpc = [w \in Sessions |-> "unborn"]
    /\ chunk_audio = [w \in Sessions |-> None]
    /\ chunk_text = [w \in Sessions |-> <<>>]
    /\ wnew = [w \in Sessions |-> <<>>]
    /\ ppc = [p \in Sessions |-> "unborn"]
    /\ used_chunked_transcription = [p \in Sessions |-> FALSE]
    /\ paudio = [p \in Sessions |-> None]
    /\ ptext = [p \in Sessions |-> <<>>]
    /\ pnew = [p \in Sessions |-> <<>>]
    /\ session = 0
    /\ wins = [x \in Sessions |-> 0]
    /\ passes = [x \in Sessions |-> 0]
    /\ spawned = [x \in Sessions |-> 0]
    /\ covered = {}
    /\ wfails = 0
    /\ wfail_mark = -1
    /\ results = <<>>
    /\ signalled = {}
    /\ aborts = [p \in Sessions |-> 0]
    /\ errors = [p \in Sessions |-> 0]
    /\ delivered = [p \in Sessions |-> FALSE]

InitApp == accumulated_transcription = <<>> /\ InitRest

\* -------------------------------------------------------------- SpecSM
NoCall == [op |-> "none", from |-> IDLE, to |-> IDLE, ok |-> FALSE,
           audio |-> None, before |-> 0, result |-> 0,
           previous_text |-> <<>>, initial_prompt |-> None]

InitSM ==
    /\ state = IDLE
    /\ lock = "free"
    /\ audio_buffer = <<>>
    /\ processed_sample_index = 0
    /\ chunk_size_samples \in 1..MaxChunk
    /\ overlap_samples \in 0..(chunk_size_samples - 1)
    /\ call = NoCall
    /\ appended = 0
    /\ nmarks = 0
    /\ enable_chunked_transcription = TRUE
    /\ scenario = [sessions |-> 0, texts |-> {}]
    /\ InitApp

SM_TransitionTo ==
    \E new \in RecordingState :
        /\ call' = [NoCall EXCEPT !.op = "transition_to", !.from = state,
                                  !.to = new,
                                  !.ok = TransitionAllowed(state, new)]
        /\ state' = TransitionTarget(state, new)
        /\ UNCHANGED <<audio_buffer, processed_sample_index,
                       chunk_size_samples, overlap_samples, appended, nmarks>>
        /\ UNCHANGED <<lock, appvars>>

SM_AddAudioChunk ==
    \E n \in 1..MaxBlock :
        /\ appended + n <= MaxAppend
        /\ audio_buffer' = Append(audio_buffer, NewBlock(0, appended, n))
        /\ appended' = appended + n
        /\ call' = [NoCall EXCEPT !.op = "add_audio_chunk"]
        /\ UNCHANGED <<state, processed_sample_index, chunk_size_samples,
                       overlap_samples, nmarks>>
        /\ UNCHANGED <<lock, appvars>>

SM_GetNextChunk_Consuming ==
    LET chunk == GetNextChunk(audio_buffer, processed_sample_index,
                              chunk_size_samples, overlap_samples)
    IN /\ call' = [NoCall EXCEPT !.op = "get_next_chunk", !.audio = chunk]
       /\ processed_sample_index' =
              IF chunk.none THEN processed_sample_index
              ELSE processed_sample_index + chunk_size_samples
       /\ UNCHANGED <<state, audio_buffer, chunk_size_samples,
                      overlap_samples, appended, nmarks>>
       /\ UNCHANGED <<lock, appvars>>

SM_GetNextChunk ==
    /\ call' = [NoCall EXCEPT !.op = "get_next_chunk",
                  !.audio = GetNextChunk(audio_buffer, processed_sample_index,
                                         chunk_size_samples, overlap_samples)]
    /\ UNCHANGED <<state, audio_buffer, processed_sample_index,
                   chunk_size_samples, overlap_samples, appended, nmarks>>
    /\ UNCHANGED <<lock, appvars>>

SM_MarkChunkProcessed ==
    /\ nmarks < MaxMarks
    /\ processed_sample_index' =
           MarkChunkProcessed(processed_sample_index, chunk_size_samples)
    /\ nmarks' = nmarks + 1
    /\ call' = [NoCall EXCEPT !.op = "mark_chunk_processed",
                              !.before = processed_sample_index]
    /\ UNCHANGED <<state, audio_buffer, chunk_size_samples, overlap_samples,
                   appended>>
    /\ UNCHANGED <<lock, appvars>>

SM_GetRemainingAudio ==
    /\ call' = [NoCall EXCEPT !.op = "get_remaining_audio",
                  !.audio = GetRemainingAudio(audio_buffer,
                                processed_sample_index, overlap_samples)]
    /\ UNCHANGED <<state, audio_buffer, processed_sample_index,
                   chunk_size_samples, overlap_samples, appended, nmarks>>
    /\ UNCHANGED <<lock, appvars>>

SM_GetTotalSamples ==
    /\ call' = [NoCall EXCEPT !.op = "get_total_samples",
                              !.result = GetTotalSamples(audio_buffer)]
    /\ UNCHANGED <<state, audio_buffer, processed_sample_index,
                   chunk_size_samples, overlap_samples, appended, nmarks>>
    /\ UNCHANGED <<lock, appvars>>

SM_GetProcessedSamples ==
    /\ call' = [NoCall EXCEPT !.op = "get_processed_samples",
                  !.result = GetProcessedSamples(processed_sample_index)]
    /\ UNCHANGED <<state, audio_buffer, processed_sample_index,
                   chunk_size_samples, overlap_samples, appended, nmarks>>
    /\ UNCHANGED <<lock, appvars>>

SM_GetAudioData ==
    /\ call' = [NoCall EXCEPT !.op = "get_audio_data",
                              !.audio = GetAudioData(audio_buffer),
                              !.before = processed_sample_index]
    /\ audio_buffer' = <<>>
    /\ UNCHANGED <<state, processed_sample_index, chunk_size_samples,
                   overlap_samples, appended, nmarks>>
    /\ UNCHANGED <<lock, appvars>>

SM_ClearBuffer ==
    /\ audio_buffer' = <<>>
    /\ processed_sample_index' = 0
    /\ nmarks' = 0
    /\ call' = [NoCall EXCEPT !.op = "clear_buffer",
                              !.before = processed_sample_index]
    /\ UNCHANGED <<state, chunk_size_samples, overlap_samples, appended>>
    /\ UNCHANGED <<lock, appvars>>

SM_ResetChunkTracking ==
    /\ processed_sample_index' = 0
    /\ nmarks' = 0
    /\ call' = [NoCall EXCEPT !.op = "reset_chunk_tracking",
                              !.before = processed_sample_index]
    /\ UNCHANGED <<state, audio_buffer, chunk_size_samples, overlap_samples,
                   appended>>
    /\ UNCHANGED <<lock, appvars>>

NextSM ==
    \/ SM_TransitionTo
    \/ SM_AddAudioChunk
    \/ SM_GetNextChunk
    \/ SM_MarkChunkProcessed
    \/ SM_GetRemainingAudio
    \/ SM_GetTotalSamples
    \/ SM_GetProcessedSamples
    \/ SM_GetAudioData
    \/ SM_ClearBuffer
    \/ SM_ResetChunkTracking

SpecSM == InitSM /\ [][NextSM]_vars

\* ================================================================= Spec
\* The application.
InitCommon ==
    /\ state = IDLE
    /\ lock = "free"
    /\ audio_buffer = <<>>
    /\ processed_sample_index = 0
    /\ chunk_size_samples = ChunkSamples
    /\ overlap_samples = OverlapSamples
    /\ call = NoCall
    /\ appended = 0
    /\ nmarks = 0
    /\ enable_chunked_transcription \in BOOLEAN
    /\ InitApp

Init == InitCommon /\ scenario = [sessions |-> MaxSessions, texts |-> Texts]

InitUI ==
    InitCommon /\ scenario = [sessions |-> MaxSessionsUI, texts |-> TextsUI]

smconf == <<chunk_size_samples, overlap_samples, call>>

smfixed == <<smconf, lock>>

\* ------------------------------------------- _on_hotkey_pressed and
\* _on_ui_record_pressed, then _toggle_recording, by caller c

\* with self._lock: every StateManager method takes the lock on entry ...
LockFree == lock = "free"

\* ... and the with block ends before the method returns to its caller
LockOnReturn_Held(holder) == holder

LockOnReturn(holder) == "free"

\* threading.Thread.is_alive()
IsAlive(w) == w # 0 /\ wpc[w] \notin {"unborn", "done"}

\* self.recording_source = ...; then the branch of _toggle_recording:
\* is_idle(), is_recording(), is_processing() (the last only prints), the
\* three tests taken as one read of the state (SpecToggle separates them)
T_Press(c) ==
    /\ tpc[c] = "idle"
    /\ LockFree
    /\ recording_source' = SourceOf(c)
    /\ tpc' = [tpc EXCEPT ![c] =
                  CASE state = IDLE -> "to_recording"
                    [] state = RECORDING -> "stop_recording"
                    [] OTHER -> "idle"]
    /\ UNCHANGED <<smvars, accumulated_transcription,
                   stop_chunked_transcription, chunked_transcription_thread,
                   enable_chunked_transcription, is_recording, twon, received,
                   apc,
                   workervars, passvars, ghostvars>>

\* if self.state_manager.transition_to(RecordingState.RECORDING):
T_ToRecording(c) ==
    /\ tpc[c] = "to_recording"
    /\ LockFree
    /\ state = IDLE => session < scenario.sessions
    /\ LET ok == TransitionAllowed(state, RECORDING)
           s == IF state = IDLE THEN session + 1 ELSE session
       IN /\ state' = TransitionTarget(state, RECORDING)
          /\ session' = s
          /\ appended' = IF state = IDLE THEN 0 ELSE appended
          /\ wins' = IF ok THEN [wins EXCEPT ![s] = @ + 1] ELSE wins
          /\ aborts' = IF ok THEN [p \in Sessions |-> 0] ELSE aborts
          /\ errors' = IF ok THEN [p \in Sessions |-> 0] ELSE errors
          /\ delivered' = IF ok THEN [p \in Sessions |-> FALSE]
                          ELSE delivered
          /\ twon' = [twon EXCEPT ![c] = IF ok THEN s ELSE 0]
          /\ tpc' = [tpc EXCEPT ![c] = IF ok THEN "start_session"
                                        ELSE "idle"]
    /\ UNCHANGED <<received, audio_buffer, processed_sample_index, smfixed,
                   nmarks,
                   sharedvars, apc, workervars, passvars, scenario,
                   passes, spawned, covered, wfails,
                   wfail_mark, results,
                   signalled>>

\* self.state_manager.reset_chunk_tracking()
\* self._accumulated_transcription = ""
\* self.audio_recorder.start_recording()
T_StartSession(c) ==
    /\ tpc[c] = "start_session"
    /\ LockFree
    /\ processed_sample_index' = 0
    /\ nmarks' = 0
    /\ accumulated_transcription' = <<>>
    /\ is_recording' = TRUE
    /\ results' = <<>>
    /\ tpc' = [tpc EXCEPT ![c] = "mode"]
    /\ UNCHANGED <<state, audio_buffer, smfixed, appended, recording_source,
                   stop_chunked_transcription, chunked_transcription_thread,
                   enable_chunked_transcription, twon, received, apc,
                   workervars,
                   passvars, scenario, session, wins, passes, spawned,
                   covered, wfails, wfail_mark,
                   outvars>>

\* if config.enable_chunked_transcription and
\*    self.recording_source == "ui_button":
\*     self._stop_chunked_transcription.clear()
\*     self._chunked_transcription_thread = threading.Thread(...); .start()
T_Mode(c) ==
    /\ tpc[c] = "mode"
    /\ LET w == twon[c]
       IN IF enable_chunked_transcription /\ recording_source = "ui_button"
          THEN /\ stop_chunked_transcription' = FALSE
               /\ chunked_transcription_thread' = w
               /\ wpc' = [wpc EXCEPT ![w] = "poll"]
               /\ spawned' = [spawned EXCEPT ![w] = @ + 1]
          ELSE UNCHANGED <<stop_chunked_transcription,
                           chunked_transcription_thread, wpc, spawned>>
    /\ twon' = [twon EXCEPT ![c] = 0]
    /\ tpc' = [tpc EXCEPT ![c] = "idle"]
    /\ UNCHANGED <<received, smvars, recording_source,
                   accumulated_transcription,
                   enable_chunked_transcription, is_recording, apc,
                   chunk_audio, chunk_text, wnew, passvars, scenario,
                   session, wins, passes, covered, wfails,
                   wfail_mark, results,
                   outvars>>

\* self.audio_recorder.stop_recording(): stopping the stream returns once
\* the callback in progress has returned;
\* if self._chunked_transcription_thread and ....is_alive(): ....set()
T_StopRecording(c) ==
    /\ tpc[c] = "stop_recording"
    /\ is_recording => apc = "idle"
    /\ is_recording' = FALSE
    /\ signalled' = IF IsAlive(chunked_transcription_thread)
                    THEN signalled \cup {w \in Sessions : IsAlive(w)}
                    ELSE signalled
    /\ stop_chunked_transcription' =
           IF IsAlive(chunked_transcription_thread) THEN TRUE
           ELSE stop_chunked_transcription
    /\ tpc' = [tpc EXCEPT ![c] = "to_processing"]
    /\ UNCHANGED <<smvars, recording_source, accumulated_transcription,
                   chunked_transcription_thread, enable_chunked_transcription,
                   twon, received, apc, workervars, passvars,
                   scenario, session, wins, passes, spawned,
                   covered, wfails, wfail_mark, results,
                   aborts, errors, delivered>>

\* if self.state_manager.transition_to(RecordingState.PROCESSING):
\*     threading.Thread(target=self._process_recording).start()
T_ToProcessing(c) ==
    /\ tpc[c] = "to_processing"
    /\ LockFree
    /\ LET ok == TransitionAllowed(state, PROCESSING)
       IN /\ state' = TransitionTarget(state, PROCESSING)
          /\ passes' = IF ok THEN [passes EXCEPT ![session] = @ + 1]
                       ELSE passes
          /\ ppc' = IF ok THEN [ppc EXCEPT ![session] = "start"] ELSE ppc
    /\ tpc' = [tpc EXCEPT ![c] = "idle"]
    /\ UNCHANGED <<audio_buffer, processed_sample_index, smfixed, appended,
                   nmarks, sharedvars, twon, received, apc, workervars,
                   used_chunked_transcription, paudio, ptext, pnew,
                   scenario, session, wins, spawned, covered, wfails,
                   wfail_mark, results,
                   outvars>>

\* _on_ui_clear_pressed, on the UI thread
UI_ClearPressed ==
    /\ tpc["ui"] = "idle"
    /\ accumulated_transcription # <<>>
    /\ accumulated_transcription' = <<>>
    /\ results' = <<>>
    /\ UNCHANGED <<smvars, recording_source, stop_chunked_transcription,
                   chunked_transcription_thread, enable_chunked_transcription,
                   is_recording, togglevars, apc, workervars, passvars,
                   scenario, session, wins, passes, spawned,
                   covered, wfails, wfail_mark,
                   outvars>>

\* ------------------------------------------------- _on_audio_chunk
\* if self.state_manager.is_recording():
A_IsRecording ==
    /\ apc = "idle"
    /\ LockFree
    /\ is_recording
    /\ state = RECORDING
    /\ TotalSamples(audio_buffer) < MaxTotal
    /\ apc' = "add_audio_chunk"
    /\ UNCHANGED <<smvars, sharedvars, togglevars, workervars, passvars,
                   ghostvars>>

\* self.state_manager.add_audio_chunk(chunk)
A_AddAudioChunk ==
    /\ apc = "add_audio_chunk"
    /\ LockFree
    /\ \E n \in 1..Min(MaxBlock, MaxTotal - TotalSamples(audio_buffer)) :
          /\ audio_buffer' =
                 Append(audio_buffer, NewBlock(session, appended, n))
          /\ appended' = appended + n
    /\ apc' = "idle"
    /\ UNCHANGED <<state, processed_sample_index, smfixed, nmarks, sharedvars,
                   togglevars, workervars, passvars, ghostvars>>

\* ------------------------------------- _chunked_transcription_worker, w
\* where the worker continues after a window's transcription call raised:
\* the inner except logs and the loop goes on
AfterChunkError_Fatal == "done"

AfterChunkError == "poll"

\* the value of self._accumulated_transcription after appending text to acc
AppendText(acc, text) ==
    IF acc # <<>> THEN acc \o <<" ">> \o text ELSE text

\* while not self._stop_chunked_transcription.is_set():
\*     chunk_audio = self.state_manager.get_next_chunk(...)
\* (a None sends the worker to sleep and back to the head of the loop)
W_Poll(w) ==
    /\ wpc[w] = "poll"
    /\ LockFree
    /\ IF stop_chunked_transcription
       THEN /\ wpc' = [wpc EXCEPT ![w] = "done"]
            /\ chunk_audio' = chunk_audio
            /\ lock' = lock
       ELSE LET chunk == GetNextChunk(audio_buffer, processed_sample_index,
                                      chunk_size_samples, overlap_samples)
            IN /\ chunk_audio' = [chunk_audio EXCEPT ![w] = chunk]
               /\ wpc' = [wpc EXCEPT ![w] = IF chunk.none THEN "poll"
                                             ELSE "transcribe"]
               /\ lock' = LockOnReturn("worker")
    /\ UNCHANGED <<smdata, sharedvars, togglevars, apc, chunk_text, wnew,
                   passvars, ghostvars>>

\* chunk_text = self.transcriber.transcribe_chunk_with_context(...) returns;
\* if chunk_text: the transcript is read and the new value computed
W_TranscribeReturns(w) ==
    /\ wpc[w] = "transcribe"
    /\ \E text \in scenario.texts :
          /\ chunk_text' = [chunk_text EXCEPT ![w] = text]
          /\ wnew' = [wnew EXCEPT ![w] =
                         IF text # <<>>
                         THEN AppendText(accumulated_transcription, text)
                         ELSE <<>>]
          /\ wpc' = [wpc EXCEPT ![w] = IF text # <<>> THEN "store" ELSE "mark"]
          /\ results' = IF text # <<>> THEN Append(results, text)
                         ELSE results
    /\ covered' = covered \cup Range(chunk_audio[w].data)
    /\ UNCHANGED <<smvars, sharedvars, togglevars, apc, chunk_audio,
                   passvars, scenario, session, wins, passes, spawned,
                   wfails,
                   wfail_mark,
                   outvars>>

\* ... or raises: except Exception as e: (log, status) and the loop continues
W_TranscribeRaises(w) ==
    /\ wpc[w] = "transcribe"
    /\ wfails < MaxFail
    /\ wfails' = wfails + 1
    /\ wfail_mark' = nmarks
    /\ wpc' = [wpc EXCEPT ![w] = AfterChunkError]
    /\ chunk_audio' = [chunk_audio EXCEPT ![w] = None]
    /\ covered' = covered \cup Range(chunk_audio[w].data)
    /\ UNCHANGED <<smvars, sharedvars, togglevars, apc, chunk_text, wnew,
                   passvars, scenario, session, wins, passes, spawned,
                   results,
                   outvars>>

\* self._accumulated_transcription += " " + chunk_text  (or = chunk_text):
\* the store
W_Store(w) ==
    /\ wpc[w] = "store"
    /\ accumulated_transcription' = wnew[w]
    /\ wnew' = [wnew EXCEPT ![w] = <<>>]
    /\ wpc' = [wpc EXCEPT ![w] = "mark"]
    /\ UNCHANGED <<smvars, recording_source, stop_chunked_transcription,
                   chunked_transcription_thread, enable_chunked_transcription,
                   is_recording, togglevars, apc, chunk_audio, chunk_text,
                   passvars, ghostvars>>

\* self.state_manager.mark_chunk_processed(samples_processed)
W_Mark(w) ==
    /\ wpc[w] = "mark"
    /\ LockFree
    /\ processed_sample_index' =
           MarkChunkProcessed(processed_sample_index, chunk_size_samples)
    /\ nmarks' = nmarks + 1
    /\ chunk_audio' = [chunk_audio EXCEPT ![w] = None]
    /\ chunk_text' = [chunk_text EXCEPT ![w] = <<>>]
    /\ wpc' = [wpc EXCEPT ![w] = "poll"]
    /\ UNCHANGED <<state, audio_buffer, smfixed, appended, sharedvars,
                   togglevars, apc, wnew, passvars, ghostvars>>

\* ------------------------------------------------ _process_recording, p
\* used_chunked_transcription = (...)
P_Start(p) ==
    /\ ppc[p] = "start"
    /\ LET used == /\ enable_chunked_transcription
                   /\ recording_source = "ui_button"
                   /\ chunked_transcription_thread # 0
       IN /\ used_chunked_transcription' =
                 [used_chunked_transcription EXCEPT ![p] = used]
          /\ ppc' = [ppc EXCEPT ![p] = IF used THEN "get_remaining_audio"
                                        ELSE "get_audio_data"]
    /\ UNCHANGED <<smvars, sharedvars, togglevars, apc, workervars, paudio,
                   ptext, pnew, ghostvars>>

\* join(timeout=10) returns once the worker has finished, or on the timeout:
\* a transcription call outlasts it, and so does a worker for which the stop
\* flag is not set (it does not leave its loop); the loop's other steps
\* take at most the 1 s poll sleep
JoinReturned(w) ==
    \/ w = 0
    \/ wpc[w] \in {"done", "transcribe"}
    \/ ~stop_chunked_transcription

\* if ....is_alive(): ....join(timeout=10);
\* remaining_audio = self.state_manager.get_remaining_audio(...)
P_GetRemainingAudio(p) ==
    /\ ppc[p] = "get_remaining_audio"
    /\ JoinReturned(chunked_transcription_thread)
    /\ LockFree
    /\ lock' = LockOnReturn("pass")
    /\ LET remaining == GetRemainingAudio(audio_buffer,
                            processed_sample_index, overlap_samples)
           has == ~remaining.none /\ Len(remaining.data) > 0
       IN /\ paudio' = [paudio EXCEPT ![p] = IF has THEN remaining ELSE None]
          /\ ppc' = [ppc EXCEPT ![p] = IF has THEN "final_transcribe"
                                        ELSE "text"]
    /\ UNCHANGED <<smdata, sharedvars, togglevars, apc, workervars,
                   used_chunked_transcription, ptext, pnew, ghostvars>>

\* final_text = self.transcriber.transcribe_chunk_with_context(...) returns;
\* if final_text: the transcript is read and the new value computed
P_FinalReturns(p) ==
    /\ ppc[p] = "final_transcribe"
    /\ \E text \in scenario.texts :
          /\ pnew' = [pnew EXCEPT ![p] =
                         IF text # <<>>
                         THEN AppendText(accumulated_transcription, text)
                         ELSE <<>>]
          /\ ppc' = [ppc EXCEPT ![p] = IF text # <<>> THEN "final_store"
                                        ELSE "text"]
          /\ results' = IF text # <<>> THEN Append(results, text)
                         ELSE results
    /\ covered' = covered \cup Range(paudio[p].data)
    /\ paudio' = [paudio EXCEPT ![p] = None]
    /\ UNCHANGED <<smvars, sharedvars, togglevars, apc, workervars,
                   used_chunked_transcription, ptext, scenario, session,
                   wins, passes, spawned, wfails,
                   wfail_mark,
                   outvars>>

\* ... or raises: except Exception as e: (log)
P_FinalRaises(p) ==
    /\ ppc[p] = "final_transcribe"
    /\ wfails < MaxFail
    /\ wfails' = wfails + 1
    /\ ppc' = [ppc EXCEPT ![p] = "text"]
    /\ covered' = covered \cup Range(paudio[p].data)
    /\ paudio' = [paudio EXCEPT ![p] = None]
    /\ UNCHANGED <<smvars, sharedvars, togglevars, apc, workervars,
                   used_chunked_transcription, ptext, pnew, scenario,
                   session, wins, passes, spawned, wfail_mark,
                   results,
                   outvars>>

\* self._accumulated_transcription += " " + final_text  (or = final_text):
\* the store
P_FinalStore(p) ==
    /\ ppc[p] = "final_store"
    /\ accumulated_transcription' = pnew[p]
    /\ pnew' = [pnew EXCEPT ![p] = <<>>]
    /\ ppc' = [ppc EXCEPT ![p] = "text"]
    /\ UNCHANGED <<smvars, recording_source, stop_chunked_transcription,
                   chunked_transcription_thread, enable_chunked_transcription,
                   is_recording, togglevars, apc, workervars,
                   used_chunked_transcription, paudio, ptext, ghostvars>>

\* text = self._accumulated_transcription; if not text: ...
P_Text(p) ==
    /\ ppc[p] = "text"
    /\ ptext' = [ptext EXCEPT ![p] = accumulated_transcription]
    /\ ppc' = [ppc EXCEPT ![p] = IF accumulated_transcription = <<>>
                                  THEN "abort" ELSE "deliver"]
    /\ UNCHANGED <<smvars, sharedvars, togglevars, apc, workervars,
                   used_chunked_transcription, paudio, pnew, ghostvars>>

\* audio_data = self.state_manager.get_audio_data(), then the checks on it:
\* no audio, too short, silent (is_silent is the recorder's judgement)
P_GetAudioData(p) ==
    /\ ppc[p] = "get_audio_data"
    /\ LockFree
    /\ lock' = LockOnReturn("pass")
    /\ LET audio_data == GetAudioData(audio_buffer)
       IN /\ audio_buffer' = <<>>
          /\ IF audio_data.none \/ Len(audio_data.data) = 0
                \/ Len(audio_data.data) < MinRecordingSamples
             THEN /\ ppc' = [ppc EXCEPT ![p] = "abort"]
                  /\ paudio' = paudio
             ELSE \E silent \in BOOLEAN :
                    IF silent
                    THEN /\ ppc' = [ppc EXCEPT ![p] = "abort"]
                         /\ paudio' = paudio
                    ELSE /\ ppc' = [ppc EXCEPT ![p] = "transcribe"]
                         /\ paudio' = [paudio EXCEPT ![p] = audio_data]
    /\ UNCHANGED <<state, processed_sample_index, smconf, appended, nmarks,
                   sharedvars, togglevars, apc, workervars,
                   used_chunked_transcription, ptext, pnew, ghostvars>>

\* text = self.transcriber.transcribe(audio_data) returns; if not text: ...
P_TranscribeReturns(p) ==
    /\ ppc[p] = "transcribe"
    /\ \E text \in scenario.texts :
          /\ ptext' = [ptext EXCEPT ![p] = text]
          /\ ppc' = [ppc EXCEPT ![p] = IF text = <<>> THEN "abort"
                                        ELSE "deliver"]
    /\ covered' = covered \cup Range(paudio[p].data)
    /\ paudio' = [paudio EXCEPT ![p] = None]
    /\ UNCHANGED <<smvars, sharedvars, togglevars, apc, workervars,
                   used_chunked_transcription, pnew, scenario, session,
                   wins, passes, spawned, wfails,
                   wfail_mark, results,
                   outvars>>

\* where the pass continues after its transcription call raised: the outer
\* except reports the error, then the finally clause runs
AfterPassError_NoFinally == "done"

AfterPassError_Swallowed == "deliver"

AfterPassError == "finally"

\* ... or raises: transcribe logs and re-raises (transcriber.py 88-90), the
\* outer except of the pass reports the error status
P_TranscribeRaises(p) ==
    /\ ppc[p] = "transcribe"
    /\ wfails < MaxFail
    /\ wfails' = wfails + 1
    /\ errors' = [errors EXCEPT ![p] = @ + 1]
    /\ ppc' = [ppc EXCEPT ![p] = AfterPassError]
    /\ covered' = covered \cup Range(paudio[p].data)
    /\ paudio' = [paudio EXCEPT ![p] = None]
    /\ UNCHANGED <<smvars, sharedvars, togglevars, apc, workervars,
                   used_chunked_transcription, ptext, pnew, scenario,
                   session, wins, passes, spawned, wfail_mark,
                   results, signalled, aborts, delivered>>

\* the early returns: self.state_manager.transition_to(RecordingState.IDLE),
\* a status, return (and then the finally clause)
P_Abort(p) ==
    /\ ppc[p] = "abort"
    /\ LockFree
    /\ state' = TransitionTarget(state, IDLE)
    /\ aborts' = [aborts EXCEPT ![p] = @ + 1]
    /\ ptext' = [ptext EXCEPT ![p] = <<>>]
    /\ ppc' = [ppc EXCEPT ![p] = "finally"]
    /\ UNCHANGED <<audio_buffer, processed_sample_index, smfixed, appended,
                   nmarks, sharedvars, togglevars, apc, workervars,
                   used_chunked_transcription, paudio, pnew,
                   scenario, session, wins, passes, spawned,
                   covered, wfails, wfail_mark, results,
                   signalled, errors, delivered>>

\* set_last_transcription(text), then paste or display
P_Deliver(p) ==
    /\ ppc[p] = "deliver"
    /\ delivered' = [delivered EXCEPT ![p] = TRUE]
    /\ ptext' = [ptext EXCEPT ![p] = <<>>]
    /\ ppc' = [ppc EXCEPT ![p] = "finally"]
    /\ UNCHANGED <<smvars, sharedvars, togglevars, apc, workervars,
                   used_chunked_transcription, paudio, pnew,
                   scenario, session, wins, passes, spawned,
                   covered, wfails, wfail_mark, results,
                   signalled, aborts, errors>>

\* finally: self.state_manager.transition_to(RecordingState.IDLE)
P_Finally(p) ==
    /\ ppc[p] = "finally"
    /\ LockFree
    /\ state' = TransitionTarget(state, IDLE)
    /\ ppc' = [ppc EXCEPT ![p] = "reset_accumulated"]
    /\ UNCHANGED <<audio_buffer, processed_sample_index, smfixed, appended,
                   nmarks, sharedvars, togglevars, apc, workervars,
                   used_chunked_transcription, paudio, ptext, pnew, ghostvars>>

\* finally: self._accumulated_transcription = ""
P_ResetAccumulated(p) ==
    /\ ppc[p] = "reset_accumulated"
    /\ accumulated_transcription' = <<>>
    /\ results' = <<>>
    /\ ppc' = [ppc EXCEPT ![p] = "done"]
    /\ UNCHANGED <<smvars, recording_source, stop_chunked_transcription,
                   chunked_transcription_thread, enable_chunked_transcription,
                   is_recording, togglevars, apc, workervars,
                   used_chunked_transcription, paudio, ptext, pnew,
                   scenario, session, wins, passes, spawned,
                   covered, wfails, wfail_mark,
                   outvars>>

Toggle(c) ==
    \/ T_Press(c)
    \/ T_ToRecording(c)
    \/ T_StartSession(c)
    \/ T_Mode(c)
    \/ T_StopRecording(c)
    \/ T_ToProcessing(c)

AudioCallback ==
    \/ A_IsRecording
    \/ A_AddAudioChunk

Worker(w) ==
    \/ W_Poll(w)
    \/ W_TranscribeReturns(w)
    \/ W_TranscribeRaises(w)
    \/ W_Store(w)
    \/ W_Mark(w)

Pass(p) ==
    \/ P_Start(p)
    \/ P_GetRemainingAudio(p)
    \/ P_FinalReturns(p)
    \/ P_FinalRaises(p)
    \/ P_FinalStore(p)
    \/ P_Text(p)
    \/ P_GetAudioData(p)
    \/ P_TranscribeReturns(p)
    \/ P_TranscribeRaises(p)
    \/ P_Abort(p)
    \/ P_Deliver(p)
    \/ P_Finally(p)
    \/ P_ResetAccumulated(p)

Next ==
    \/ \E c \in Callers : Toggle(c)
    \/ UI_ClearPressed
    \/ AudioCallback
    \/ \E w \in Sessions : Worker(w)
    \/ \E p \in Sessions : Pass(p)

Spec == Init /\ [][Next]_vars

\* The application driven from the UI button alone.
\* (no transcription call fails, the clear button is not used)
WorkerUI(w) ==
    \/ W_Poll(w)
    \/ W_TranscribeReturns(w)
    \/ W_Store(w)
    \/ W_Mark(w)

PassUI(p) ==
    \/ P_Start(p)
    \/ P_GetRemainingAudio(p)
    \/ P_FinalReturns(p)
    \/ P_FinalStore(p)
    \/ P_Text(p)
    \/ P_GetAudioData(p)
    \/ P_TranscribeReturns(p)
    \/ P_Abort(p)
    \/ P_Deliver(p)
    \/ P_Finally(p)
    \/ P_ResetAccumulated(p)

NextUI ==
    \/ Toggle("ui")
    \/ AudioCallback
    \/ \E w \in Sessions : WorkerUI(w)
    \/ \E p \in Sessions : PassUI(p)

SpecUI == InitUI /\ [][NextUI]_vars

\* One session driven from the UI button, in either mode, with failing
\* transcription calls.  The threads of the processing pass and of the
\* worker are scheduled, and the transcription calls they are inside return
\* or raise.
InitFair ==
    InitCommon /\ scenario = [sessions |-> MaxSessions, texts |-> TextsUI]

NextFair ==
    \/ Toggle("ui")
    \/ AudioCallback
    \/ \E w \in Sessions : Worker(w)
    \/ \E p \in Sessions : Pass(p)

FairSpec ==
    /\ InitFair /\ [][NextFair]_vars
    /\ WF_vars(\E p \in Sessions : Pass(p))
    /\ WF_vars(\E w \in Sessions : Worker(w))

\* =========================================================== SpecToggle
\* Both triggers over two sessions in single-pass mode, with the tests of
\* _toggle_recording as the separate calls they are.
\* self.recording_source = ...; if self.state_manager.is_idle(): ...
T_IsIdle(c) ==
    /\ tpc[c] = "idle"
    /\ LockFree
    /\ recording_source' = SourceOf(c)
    /\ tpc' = [tpc EXCEPT ![c] = IF state = IDLE THEN "to_recording"
                                  ELSE "is_recording"]
    /\ received' = [received EXCEPT ![c] = IF state = IDLE THEN "none"
                                            ELSE state]
    /\ UNCHANGED <<smvars, accumulated_transcription,
                   stop_chunked_transcription, chunked_transcription_thread,
                   enable_chunked_transcription, is_recording, twon, apc,
                   workervars, passvars, ghostvars>>

\* elif self.state_manager.is_recording(): ...
\* elif self.state_manager.is_processing(): (a message)
T_IsRecording(c) ==
    /\ tpc[c] = "is_recording"
    /\ LockFree
    /\ tpc' = [tpc EXCEPT ![c] = IF state = RECORDING THEN "stop_recording"
                                  ELSE "idle"]
    /\ received' = [received EXCEPT ![c] = "none"]
    /\ UNCHANGED <<smvars, sharedvars, twon, apc, workervars, passvars,
                   ghostvars>>

ToggleSplit(c) ==
    \/ T_IsIdle(c)
    \/ T_IsRecording(c)
    \/ T_ToRecording(c)
    \/ T_StartSession(c)
    \/ T_Mode(c)
    \/ T_StopRecording(c)
    \/ T_ToProcessing(c)

PassSingle(p) ==
    \/ P_Start(p)
    \/ P_GetAudioData(p)
    \/ P_TranscribeReturns(p)
    \/ P_Abort(p)
    \/ P_Deliver(p)
    \/ P_Finally(p)
    \/ P_ResetAccumulated(p)

InitToggle ==
    /\ InitCommon
    /\ ~enable_chunked_transcription
    /\ scenario = [sessions |-> MaxSessionsUI, texts |-> TextsUI]

NextToggle ==
    \/ \E c \in Callers : ToggleSplit(c)
    \/ AudioCallback
    \/ \E p \in Sessions : PassSingle(p)

SpecToggle == InitToggle /\ [][NextToggle]_vars

\* ============================================================= SpecCtx
\* The continuity context of a chunk's transcription call, for transcripts
\* of up to a little over ContextChars characters: a prefix and a suffix of
\* up to MaxAffix characters around a run of PadLengths non-blank ones.
Chars == Whitespace \cup {"a"}
Affixes == UNION {[1..n -> Chars] : n \in 0..MaxAffix}
PadLengths == {0} \cup ((ContextChars - MaxAffix)..(ContextChars + 1))
PreviousTexts ==
    {pre \o [i \in 1..k |-> "a"] \o suf :
        pre \in Affixes, suf \in Affixes, k \in PadLengths}

InitCtx ==
    /\ state = IDLE
    /\ lock = "free"
    /\ audio_buffer = <<>>
    /\ processed_sample_index = 0
    /\ chunk_size_samples = ChunkSamples
    /\ overlap_samples = OverlapSamples
    /\ call = NoCall
    /\ appended = 0
    /\ nmarks = 0
    /\ enable_chunked_transcription = TRUE
    /\ scenario = [sessions |-> 0, texts |-> {}]
    /\ accumulated_transcription \in PreviousTexts
    /\ InitRest

\* chunk_text = self.transcriber.transcribe_chunk_with_context(
\*     audio_data=chunk_audio,
\*     previous_text=self._accumulated_transcription, ...):
\* the call and the parameters it prepares for the model
TC_TranscribeChunkWithContext ==
    /\ call.op = "none"
    /\ call' = [NoCall EXCEPT
                  !.op = "transcribe_chunk_with_context",
                  !.previous_text = accumulated_transcription,
                  !.initial_prompt =
                      InitialPrompt(accumulated_transcription)]
    /\ UNCHANGED <<state, audio_buffer, processed_sample_index,
                   chunk_size_samples, overlap_samples, appended, nmarks>>
    /\ UNCHANGED <<lock, appvars>>

NextCtx == TC_TranscribeChunkWithContext

SpecCtx == InitCtx /\ [][NextCtx]_vars

\* ============================================================== claims
\* the flat contents, the length and the cursor of the buffer
Flat == Concatenate(audio_buffer)
Total == TotalSamples(audio_buffer)
Cursor == processed_sample_index

\* C1: transition_to returns true and sets the state exactly for
\* Idle->Recording, Recording->Processing, Recording->Idle and
\* Processing->Idle; every other request (every self-transition included)
\* returns false and leaves the state unchanged; the initial state is Idle.
C1_TransitionTable ==
    /\ call.op = "none" => state = IDLE
    /\ call.op = "transition_to" =>
         /\ call.ok <=> <<call.from, call.to>> \in
                {<<IDLE, RECORDING>>, <<RECORDING, PROCESSING>>,
                 <<RECORDING, IDLE>>, <<PROCESSING, IDLE>>}
         /\ call.ok => state = call.to
         /\ ~call.ok => state = call.from

C1_Witness ==
    /\ call.op = "transition_to"
    /\ call.from = RECORDING
    /\ call.to = RECORDING
    /\ ~call.ok
    /\ state = RECORDING

\* C3: after any interleaving of add_audio_chunk and mark_chunk_processed,
\* get_next_chunk returns None if and only if total - cursor < chunkSize.
C3_NoneIffTooFewNew ==
    call.op = "get_next_chunk" =>
        (call.audio.none <=> Total - Cursor < chunk_size_samples)

C3_Witness ==
    /\ call.op = "get_next_chunk"
    /\ ~call.audio.none
    /\ nmarks >= 1
    /\ Len(audio_buffer) >= 2

\* C4: a window returned by get_next_chunk is exactly the slice [start, end)
\* of the buffered samples, start = max(0, cursor - overlap) and
\* end = min(total, start + chunkSize + overlap); with chunkSize = 80000,
\* overlap = 48000 and total = 200000 the first window is [0, 128000) and,
\* after one mark_chunk_processed(80000), the second is [32000, 160000).
C4_WindowIsSlice ==
    /\ (call.op = "get_next_chunk" /\ ~call.audio.none) =>
         LET start == Max(0, Cursor - overlap_samples)
             end == Min(Total, start + chunk_size_samples + overlap_samples)
         IN /\ start < end
            /\ call.audio.data = [i \in 1..(end - start) |-> Flat[start + i]]
    /\ ChunkWindow(200000, 0, 80000, 48000) = <<0, 128000>>
    /\ ChunkWindow(200000, MarkChunkProcessed(0, 80000), 80000, 48000)
           = <<32000, 160000>>

C4_Witness ==
    /\ call.op = "get_next_chunk"
    /\ ~call.audio.none
    /\ Cursor > overlap_samples
    /\ overlap_samples > 0
    /\ Total > Cursor + chunk_size_samples

\* C5: get_remaining_audio returns None if and only if cursor >= total;
\* otherwise it returns the slice [max(0, cursor - overlap), total), of
\* length total - cursor + min(overlap, cursor) (cursor = 80000,
\* total = 200000, overlap = 48000: [32000, 200000), length 168000).
C5_RemainingTail ==
    /\ call.op = "get_remaining_audio" =>
         /\ call.audio.none <=> Cursor >= Total
         /\ ~call.audio.none =>
              LET start == Max(0, Cursor - overlap_samples)
              IN /\ call.audio.data =
                        [i \in 1..(Total - start) |-> Flat[start + i]]
                 /\ Len(call.audio.data) =
                        Total - Cursor + Min(overlap_samples, Cursor)
    /\ RemainingStart(80000, 48000) = 32000
    /\ 200000 - RemainingStart(80000, 48000) = 168000

C5_Witness ==
    /\ call.op = "get_remaining_audio"
    /\ ~call.audio.none
    /\ overlap_samples > 0
    /\ Cursor > 0

\* C6: mark_chunk_processed(n) advances the cursor by exactly n; after N
\* calls of mark_chunk_processed(chunkSize) with no intervening reset the
\* cursor equals N x chunkSize, for every 0 <= overlap < chunkSize.
C6_CursorIsMarksTimesChunk ==
    /\ 0 <= overlap_samples /\ overlap_samples < chunk_size_samples
    /\ Cursor = nmarks * chunk_size_samples
    /\ call.op = "mark_chunk_processed" =>
           Cursor = call.before + chunk_size_samples

C6_Witness ==
    /\ call.op = "mark_chunk_processed"
    /\ nmarks = MaxMarks
    /\ chunk_size_samples > 1

\* C2: under any interleaving of toggle requests from the hotkey thread and
\* the UI thread, each Idle->Recording transition is won by exactly one
\* caller (one recording start, at most one worker started) and each
\* Recording->Processing transition by exactly one caller (one processing
\* pass per session).
C2_OneWinnerPerTransition ==
    /\ \A s \in Sessions :
         /\ wins[s] = (IF s <= session THEN 1 ELSE 0)
         /\ spawned[s] <= wins[s]
         /\ passes[s] <= wins[s]
         /\ passes[s] = 1 <=> ppc[s] # "unborn"
    /\ \A c, d \in Callers : (twon[c] # 0 /\ twon[c] = twon[d]) => c = d

C2_Witness ==
    /\ wins[1] = 1
    /\ \E c, d \in Callers :
         /\ tpc[c] \in {"start_session", "mode"}
         /\ tpc[d] = "to_recording"
         /\ state = RECORDING

\* C7: in every reachable state of the application,
\* 0 <= processed cursor <= total number of buffered samples.
C7_CursorWithinBuffer == 0 <= Cursor /\ Cursor <= Total

\* C8: the cursor never decreases during a session; it is set back to 0
\* exactly when a new session starts or the buffer is explicitly cleared;
\* every operation that empties the buffer also resets the cursor to 0.
C8_CursorResetWithBuffer ==
    [][/\ Cursor' < Cursor =>
            /\ Cursor' = 0
            /\ \E c \in Callers :
                  tpc[c] = "start_session" /\ tpc'[c] = "mode"
       /\ (audio_buffer # <<>> /\ audio_buffer' = <<>>) => Cursor' = 0]_vars

\* the positions of a pass after its final get_remaining_audio slice has
\* been handed to the transcription call (or there was none to hand)
AfterFinalPass == {"text", "abort", "deliver", "finally",
                   "reset_accumulated", "done"}

\* C9: in a chunked session, once the worker has exited and the final pass
\* has run, every sample appended during the session has been included in
\* at least one slice handed to the transcription capability.
C9_EverySampleTranscribed ==
    \A p \in Sessions :
        (/\ used_chunked_transcription[p]
         /\ ppc[p] \in AfterFinalPass
         /\ \A w \in Sessions : ~IsAlive(w))
        => \A i \in 1..Len(Flat) : Flat[i][1] = p => Flat[i] \in covered

\* C10: when the transcription call for one window fails in the chunked
\* worker, the worker does not terminate (it is back at the head of its
\* loop) and the accumulated transcript is left as it was; a worker
\* terminates only at the head of its loop, on the stop signal.
C10_ChunkFailureTolerated ==
    [][\A w \in Sessions :
         /\ (wpc[w] = "transcribe" /\ wpc'[w] # "transcribe"
               /\ wfails' = wfails + 1)
            => /\ wpc'[w] = "poll"
               /\ accumulated_transcription' = accumulated_transcription
         /\ (wpc[w] # "done" /\ wpc'[w] = "done")
            => (wpc[w] = "poll" /\ stop_chunked_transcription)]_vars

\* the second window failed once after the first was appended, and its
\* retry has been appended behind the first window's text
C10_Witness ==
    \E w \in Sessions :
        /\ wfail_mark = 1
        /\ nmarks = 1
        /\ wpc[w] = "mark"
        /\ accumulated_transcription = <<"a", " ", "b">>

\* C11: after a window's transcription call fails, the worker skips the
\* failed window: the cursor advances past it, and the worker does not
\* request or transcribe again the window at the cursor of the failed call.
C11_FailedWindowSkipped ==
    \A w \in Sessions :
        (wfail_mark >= 0 /\ wpc[w] \in {"transcribe", "store", "mark"})
        => nmarks > wfail_mark

\* the per-window results joined by exactly one space
RECURSIVE JoinTexts(_)
JoinTexts(texts) ==
    IF texts = <<>> THEN <<>>
    ELSE IF Len(texts) = 1 THEN texts[1]
    ELSE JoinTexts(SubSeq(texts, 1, Len(texts) - 1))
             \o <<" ">> \o texts[Len(texts)]

\* C12: during a session the accumulated transcript equals the non-empty
\* per-window results of the session, in order, joined by exactly one
\* space (whenever no append of a returned result is still pending).
C12_TranscriptIsJoinedResults ==
    (/\ session >= 1
     /\ \A c \in Callers : tpc[c] # "start_session"
     /\ ppc[session] # "done"
     /\ \A w \in Sessions : wpc[w] # "store"
     /\ \A p \in Sessions : ppc[p] # "final_store")
    => accumulated_transcription = JoinTexts(results)

\* a transcription call is in progress in some thread
Transcribing ==
    \/ \E w \in Sessions : wpc[w] = "transcribe"
    \/ \E p \in Sessions : ppc[p] \in {"final_transcribe", "transcribe"}

\* C13: no thread holds the StateManager lock while a transcription call
\* is in progress, so the capture callback's add_audio_chunk can take its
\* step (it never waits on a transcription).
C13_NoLockDuringTranscription ==
    Transcribing =>
        /\ LockFree
        /\ apc = "add_audio_chunk" => ENABLED A_AddAudioChunk

C13_Witness ==
    /\ Transcribing
    /\ apc = "add_audio_chunk"
    /\ \E w \in Sessions : wpc[w] = "transcribe"
    /\ \E p \in Sessions : ppc[p] = "final_transcribe"

\* C14: at most one chunked worker is running at any time, across any
\* sequence of sessions: two workers never extract windows from, or advance
\* the cursor of, the buffer concurrently.
C14_AtMostOneWorker ==
    \A v, w \in Sessions : (IsAlive(v) /\ IsAlive(w)) => v = w

\* C15: the chunked worker acts only while the state is Recording or
\* Processing: no worker step (window request, transcript append, cursor
\* advance) is taken while the state is Idle.
C15_WorkerActsOnlyInSession ==
    [][\A w \in Sessions :
         (\/ wpc[w] = "poll" /\ wpc'[w] = "transcribe"
          \/ wpc[w] = "store" /\ wpc'[w] = "mark"
          \/ wpc[w] = "mark" /\ wpc'[w] = "poll")
         => state # IDLE]_vars

\* C16: once the stop signal has been raised for a worker, the worker
\* requests no window in any loop iteration that begins afterwards (the
\* flag is checked at the start of every iteration, where the worker exits).
C16_NoWindowAfterStop ==
    [][\A w \in Sessions :
         (w \in signalled /\ wpc[w] = "poll") => wpc'[w] # "transcribe"]_vars

\* C17: whenever the state becomes Processing it eventually becomes Idle
\* again, on every path of the processing pass (delivery, each abort, a
\* transcription exception, a join that timed out on an unfinished worker).
C17_ProcessingLeadsToIdle == (state = PROCESSING) ~> (state = IDLE)

\* the pass has ended in Idle although its join timed out on a live worker
C17_Witness ==
    /\ state = IDLE
    /\ \E p \in Sessions :
         /\ ppc[p] = "done"
         /\ used_chunked_transcription[p]
         /\ IsAlive(chunked_transcription_thread)

\* C18: when a session has ended and the state is back at Idle, the
\* per-session accumulators are cleared: the audio buffer is empty, the
\* cursor is 0 and the accumulated transcript is empty, in chunked mode as
\* well as in single-pass mode.
C18_AccumulatorsCleared ==
    \A p \in Sessions :
        (p = session /\ ppc[p] = "done" /\ state = IDLE)
        => /\ audio_buffer = <<>>
           /\ Cursor = 0
           /\ accumulated_transcription = <<>>

\* C19: in chunked mode as in single-pass mode, a session whose recording
\* is shorter than the minimum duration (or was judged silent, which is
\* decided where the duration is) delivers no transcript.
C19_ShortRecordingNotDelivered ==
    \A p \in Sessions :
        (p = session /\ delivered[p]) => appended >= MinRecordingSamples

\* C20: each session-level non-fatal condition aborts the session: a
\* session with no audio or with a recording shorter than the minimum (and
\* any session in which an abort status was emitted: silent audio, empty
\* final transcript) delivers no text, emits its abort status at most once
\* (for the short sessions: exactly once) and ends in Idle.
C20_ConditionAbortsSession ==
    \A p \in Sessions :
        (p = session /\ ppc[p] = "done")
        => /\ aborts[p] <= 1
           /\ aborts[p] = 1 => (~delivered[p] /\ state = IDLE)
           /\ appended < MinRecordingSamples =>
                 (aborts[p] = 1 /\ ~delivered[p] /\ state = IDLE)

\* C22: with 0 <= overlap < chunkSize, the windows returned right before and
\* right after one mark_chunk_processed(chunkSize), both non-None, share at
\* least overlap samples: the later window starts at or before
\* (cursor before the advance + chunkSize) - overlap, and the earlier one
\* extends at least to cursor before the advance + chunkSize, whatever the
\* buffer held when it was taken.
C22_ConsecutiveWindowsOverlap ==
    call.op = "mark_chunk_processed" =>
      LET before == call.before
          boundary == before + chunk_size_samples
          first == GetNextChunk(audio_buffer, before, chunk_size_samples,
                                overlap_samples)
          second == GetNextChunk(audio_buffer, Cursor, chunk_size_samples,
                                 overlap_samples)
          w2 == ChunkWindow(Total, Cursor, chunk_size_samples,
                            overlap_samples)
      IN (~first.none /\ ~second.none) =>
           /\ w2[1] <= boundary - overlap_samples
           /\ \A t \in 0..Total :
                LET w1 == ChunkWindow(t, before, chunk_size_samples,
                                      overlap_samples)
                IN w1 # <<>> => w1[2] >= boundary
           /\ Cardinality(Range(first.data) \cap Range(second.data))
                  >= overlap_samples

C22_Witness ==
    /\ call.op = "mark_chunk_processed"
    /\ call.before > 0
    /\ overlap_samples > 0
    /\ ~GetNextChunk(audio_buffer, call.before, chunk_size_samples,
                     overlap_samples).none
    /\ ~GetNextChunk(audio_buffer, Cursor, chunk_size_samples,
                     overlap_samples).none

\* C23: every window returned by get_next_chunk has length exactly
\* chunkSize + overlap.
C23_WindowLengthExact ==
    (call.op = "get_next_chunk" /\ ~call.audio.none) =>
        Len(call.audio.data) = chunk_size_samples + overlap_samples

\* C24: every window carries trailing lookahead: when at least
\* chunkSize + overlap samples exist beyond the cursor, the returned window
\* extends to cursor + chunkSize + overlap.
C24_TrailingLookahead ==
    (/\ call.op = "get_next_chunk"
     /\ ~call.audio.none
     /\ Total - Cursor >= chunk_size_samples + overlap_samples) =>
        call.audio.data[Len(call.audio.data)]
            = Flat[Cursor + chunk_size_samples + overlap_samples]

\* C21: in single-pass mode a failure of the whole-buffer transcription call
\* is propagated as an error before any output exists: the pass reports one
\* error status, delivers and stores no text, reports no abort condition,
\* and has returned the state to Idle when it is over.
C21_TranscriptionFailurePropagated ==
    \A p \in Sessions :
        errors[p] >= 1 =>
           /\ errors[p] = 1
           /\ ~used_chunked_transcription[p]
           /\ ~delivered[p]
           /\ aborts[p] = 0
           /\ ptext[p] = <<>>
           /\ ppc[p] \in {"finally", "reset_accumulated", "done"}
           /\ (p = session /\ ppc[p] \in {"reset_accumulated", "done"})
                  => state = IDLE

C21_Witness ==
    \E p \in Sessions :
        /\ errors[p] = 1
        /\ ppc[p] = "done"
        /\ state = IDLE
        /\ ~delivered[p]

\* C25: the buffer is emptied only at a session boundary: no step empties
\* it while a chunked worker holds a window it has extracted and not yet
\* marked processed, also when a session started from the UI is stopped
\* from the hotkey.
C25_BufferKeptUnderWindow ==
    [][(audio_buffer # <<>> /\ audio_buffer' = <<>>) =>
          \A w \in Sessions :
              wpc[w] \notin {"transcribe", "store", "mark"}]_vars

\* C26: mutations of the transcript are serialized: whenever the chunked
\* worker or the final pass stores an append, the value stored is the
\* transcript as it is at that moment with the new text appended, so no
\* concurrent update (append, end-of-session reset, explicit clear) is lost
\* and no append is applied to a stale value.
C26_TranscriptWritesSerialized ==
    [][((\E w \in Sessions : wpc[w] = "store" /\ wpc'[w] # "store")
        \/ (\E p \in Sessions :
               ppc[p] = "final_store" /\ ppc'[p] # "final_store"))
       => \E text \in Texts \ {<<>>} :
             accumulated_transcription'
                 = AppendText(accumulated_transcription, text)]_vars

\* C27: the transcript is empty when a session starts: it is empty at the
\* transition Idle -> Recording (and so until the session's first
\* successful window), and through the session only the session's own
\* worker or pass puts text into it, never one of an earlier session.
C27_TranscriptEmptyAtSessionStart ==
    [][/\ (\E c \in Callers : /\ tpc[c] = "to_recording"
                               /\ tpc'[c] = "start_session")
            => accumulated_transcription' = <<>>
       /\ (/\ accumulated_transcription' # accumulated_transcription
           /\ accumulated_transcription' # <<>>)
            => \/ wpc[session] = "store" /\ wpc'[session] = "mark"
               \/ /\ ppc[session] = "final_store"
                  /\ ppc'[session] = "text"]_vars

\* C28: an audio block is appended to the buffer only if the state is
\* Recording at the moment of the append; a block delivered while the state
\* is Idle or Processing leaves the buffer unchanged.
C28_AppendOnlyWhileRecording ==
    [][Len(audio_buffer') > Len(audio_buffer) => state = RECORDING]_vars

\* C29: once a later session has entered Recording, no remaining step of
\* an earlier session's pass changes the recording state, the cursor or the
\* transcript (the pass makes its transition to Idle once and never moves a
\* later session from Recording to Idle).
C29_OldPassLeavesNewSessionAlone ==
    [][\A p \in Sessions :
          (p < session /\ ppc'[p] # ppc[p]) =>
             /\ state' = state
             /\ processed_sample_index' = processed_sample_index
             /\ accumulated_transcription' = accumulated_transcription]_vars

\* C30: the transcription mode is decided once per session: the pass of a
\* session uses chunked reconciliation if and only if a chunked worker was
\* started for that same session, also when the stop is issued from the
\* other trigger source.
C30_ModeFollowsSessionWorker ==
    [][\A p \in Sessions :
          (ppc[p] = "start" /\ ppc'[p] # "start") =>
             (used_chunked_transcription'[p] <=> spawned[p] >= 1)]_vars

\* C31: every audio slice handed to a transcription call during a session
\* (a worker's window, the final tail, the whole buffer of a single pass)
\* holds only samples appended during that same session: no sample of an
\* earlier session is transcribed again in a later one.
C31_SliceOfThisSessionOnly ==
    [][/\ \A w \in Sessions :
            (chunk_audio'[w] # chunk_audio[w] /\ ~chunk_audio'[w].none) =>
                \A x \in Range(chunk_audio'[w].data) : x[1] = session
       /\ \A p \in Sessions :
            (paudio'[p] # paudio[p] /\ ~paudio'[p].none) =>
                \A x \in Range(paudio'[p].data) : x[1] = session]_vars

\* C34: get_next_chunk, get_remaining_audio, get_total_samples and
\* get_processed_samples are read-only: each leaves the recording state,
\* the buffer and the cursor unchanged, so that get_next_chunk called twice
\* with no append or mark in between returns the same window.
C34_QueriesReadOnly ==
    [][call'.op \in {"get_next_chunk", "get_remaining_audio",
                     "get_total_samples", "get_processed_samples"} =>
          /\ state' = state
          /\ audio_buffer' = audio_buffer
          /\ processed_sample_index' = processed_sample_index
          /\ call'.op = "get_next_chunk" =>
                call'.audio = GetNextChunk(audio_buffer',
                                  processed_sample_index',
                                  chunk_size_samples, overlap_samples)
          /\ (call.op = "get_next_chunk" /\ call'.op = "get_next_chunk")
                => call'.audio = call.audio]_vars

C34_Witness ==
    /\ call.op = "get_processed_samples"
    /\ call.result = chunk_size_samples
    /\ GetTotalSamples(audio_buffer) > call.result
    /\ state = RECORDING

\* C32: the continuity context passed to the model for a chunk is the last
\* 100 characters of the accumulated transcript at call time with the
\* surrounding whitespace trimmed; when the transcript is empty or the
\* trimmed suffix is empty, no context is passed.
C32_ContextIsTrimmedSuffix ==
    call.op = "transcribe_chunk_with_context" =>
       LET text == call.previous_text
           first == Max(1, Len(text) - 99)
           solid == {i \in first..Len(text) : text[i] \notin Whitespace}
       IN /\ text = accumulated_transcription
          /\ solid = {} => call.initial_prompt.none
          /\ solid # {} =>
                LET lo == CHOOSE i \in solid : \A j \in solid : i <= j
                    hi == CHOOSE i \in solid : \A j \in solid : i >= j
                IN /\ ~call.initial_prompt.none
                   /\ call.initial_prompt.data = SubSeq(text, lo, hi)

C32_Witness ==
    /\ call.op = "transcribe_chunk_with_context"
    /\ Len(call.previous_text) > ContextChars
    /\ ~call.initial_prompt.none
    /\ Len(call.initial_prompt.data) < ContextChars
    /\ call.previous_text[1] \notin Whitespace

\* C33: a toggle request received while the state is Processing changes
\* nothing: the state stays Processing, the buffer, the cursor and the
\* transcript are unchanged, and the request starts or stops no recorder,
\* worker or pass (the handler returns from its tests).
C33_ToggleIgnoredWhileProcessing ==
    [][\A c \in Callers :
          /\ (tpc[c] = "idle" /\ tpc'[c] # "idle" /\ state = PROCESSING)
               => /\ tpc'[c] = "is_recording"
                  /\ UNCHANGED <<state, audio_buffer, processed_sample_index,
                                 accumulated_transcription, is_recording>>
          /\ (/\ tpc[c] = "is_recording"
              /\ received[c] = PROCESSING
              /\ tpc'[c] # "is_recording")
               => tpc'[c] = "idle"]_vars
====
